---- MODULE Spec2Model ----
(***************************************************************************)
(* Model of autoreporting.py: ModelResults (accuracy, misidentified        *)
(* images), common_misidentified_images, and the driver main() that turns  *)
(* a list of result files into outputs/report.html.                        *)
(*                                                                         *)
(* Strings on which the code computes (file paths, model names) are        *)
(* sequences of one-character strings.  A Python call either returns or    *)
(* raises: Return(v) and Raise(e).  A float n/d is kept as the pair of     *)
(* integers [num |-> n, den |-> d].                                        *)
(***************************************************************************)
EXTENDS Naturals, Sequences, FiniteSets, TLC

VARIABLES
    args,                 \* args.results_filepaths
    fs,                   \* the result files: filepath -> content
    outBefore,            \* outputs/report.html before the run
    outFile,              \* outputs/report.html now
    pc,                   \* position of main(), or "call"/"returned" for a library call
    model_results,        \* main's list model_results
    number_misidentified, \* main's local number_misidentified
    sections,             \* main's list sections
    err,                  \* the exception that ended main(), "" if none
    call                  \* a library call: its function, argument and result

vars == <<args, fs, outBefore, outFile, pc, model_results,
          number_misidentified, sections, err, call>>

-----------------------------------------------------------------------------
(* Bounds *)

MaxFiles == 2       \* longest list of filepaths given to main()
MaxRows == 3        \* most rows in a result table of ModelSpec
MaxModels == 2      \* longest list handed to common_misidentified_images
MaxMisidentified == 2   \* longest misidentified_images list in AggregatorSpec

-----------------------------------------------------------------------------
(* Python values *)

Return(v) == [err |-> "", val |-> v]
Raise(e) == [err |-> e]
Raised(r) == r.err # ""

Range(s) == {s[k] : k \in 1..Len(s)}

SeqsUpTo(S, n) == UNION {[1..k -> S] : k \in 0..n}

-----------------------------------------------------------------------------
(* Strings: os.path.basename, os.path.split, os.path.splitext, str.split *)

\* Largest k with s[k] = c, 0 if none (str.rfind, 1-based).
RFind(s, c) ==
    LET hits == {k \in 1..Len(s) : s[k] = c}
    IN IF hits = {} THEN 0 ELSE CHOOSE k \in hits : \A m \in hits : m <= k

\* Smallest k at which sub occurs in s, 0 if none (str.find, 1-based).
Find(s, sub) ==
    LET hits == {k \in 1..(Len(s) + 1) :
                    /\ k + Len(sub) - 1 <= Len(s)
                    /\ SubSeq(s, k, k + Len(sub) - 1) = sub}
    IN IF hits = {} THEN 0 ELSE CHOOSE k \in hits : \A m \in hits : k <= m

basename(p) == SubSeq(p, RFind(p, "/") + 1, Len(p))

\* os.path.split(p)[-1]: the part after the last slash.
split_tail(p) == SubSeq(p, RFind(p, "/") + 1, Len(p))

\* os.path.splitext(p)[0]: p up to its last dot, unless that dot only follows
\* the leading dots of the file name (then there is no extension).
splitext_root(p) ==
    LET sepIndex == RFind(p, "/")
        dotIndex == RFind(p, ".")
    IN IF /\ dotIndex > sepIndex
          /\ \E k \in (sepIndex + 1)..(dotIndex - 1) : p[k] # "."
       THEN SubSeq(p, 1, dotIndex - 1)
       ELSE p

\* s.split(sep)[0]: s up to the first occurrence of sep, all of s if none.
split_first(s, sep) ==
    LET k == Find(s, sep)
    IN IF k = 0 THEN s ELSE SubSeq(s, 1, k - 1)

RESULTS_MARKER == <<"_", "r", "e", "s", "u", "l", "t", "s">>

results_root_name(results_filepath) == splitext_root(basename(results_filepath))

model_name_of(results_filepath) ==
    split_first(results_root_name(results_filepath), RESULTS_MARKER)

-----------------------------------------------------------------------------
(* Result files.  A row is an index value (first column) and the cell of   *)
(* the "correct" column as pandas reads it: True, False, or NaN for a      *)
(* blank cell.                                                             *)

ImageIds == {"img1", "img2", "img3"}
Cells == {"True", "False", "NaN"}
Rows == [id : ImageIds, correct : Cells]

Missing == [exists |-> FALSE, rows |-> <<>>]
File(rows) == [exists |-> TRUE, rows |-> rows]

\* pd.read_csv(filepath, index_col=0)
csv_to_df(files, filepath) ==
    IF files[filepath].exists THEN Return(files[filepath].rows)
    ELSE Raise("FileNotFoundError")

IsTrue(row) == row.correct = "True"      \* df["correct"] == True
IsFalse(row) == row.correct = "False"    \* df["correct"] == False

\* Mutant: counts the rows whose flag is False.
number_correct_of_False(df_results) == Len(SelectSeq(df_results, IsFalse))

number_correct_of(df_results) == Len(SelectSeq(df_results, IsTrue))

\* Mutant: a division that yields a value (NaN) for 0/0 instead of raising.
_calculate_accuracy_NaN(df_results) ==
    Return([num |-> number_correct_of(df_results), den |-> Len(df_results)])

_calculate_accuracy(df_results) ==
    LET number_correct == number_correct_of(df_results)
        number_total == Len(df_results)
    IN IF number_total = 0 THEN Raise("ZeroDivisionError")
       ELSE Return([num |-> number_correct, den |-> number_total])

_get_misidentified_images(df_results) ==
    LET df_misidentified == SelectSeq(df_results, IsFalse)
    IN [k \in 1..Len(df_misidentified) |-> df_misidentified[k].id]

\* ModelResults.__init__
ModelResults(files, model_name, filepath) ==
    LET df == csv_to_df(files, filepath)
        accuracy == _calculate_accuracy(df.val)
        misidentified_images == _get_misidentified_images(df.val)
    IN IF Raised(df) THEN df
       ELSE IF Raised(accuracy) THEN accuracy
       ELSE Return([model_name |-> model_name,
                    filepath |-> filepath,
                    dataset |-> split_tail(filepath),
                    df_results |-> df.val,
                    number_of_images |-> Len(df.val),
                    accuracy |-> accuracy.val,
                    misidentified_images |-> misidentified_images,
                    number_misidentified |-> Len(misidentified_images)])

\* ModelResults.get_results_df_as_html: the table markup and its table_id.
get_results_df_as_html(self) ==
    [table_id |-> self.model_name, rows |-> self.df_results]

-----------------------------------------------------------------------------
(* common_misidentified_images *)

ToSet(list) == Range(list)

RECURSIVE IntersectRest(_, _)
IntersectRest(acc, sets) ==
    IF sets = <<>> THEN acc ELSE IntersectRest(acc \cap Head(sets), Tail(sets))

\* set.intersection(*sets): an unbound method, so its first argument is the
\* set it is called on; with no argument at all the call is a TypeError.
set_intersection(sets) ==
    IF sets = <<>> THEN Raise("TypeError")
    ELSE Return(IntersectRest(Head(sets), Tail(sets)))

\* Mutant: leaves the last model out of the intersection.
common_misidentified_images_DropLast(list_model_results) ==
    LET misidentified_images_sets ==
            [k \in 1..Len(list_model_results) |->
                ToSet(list_model_results[k].misidentified_images)]
    IN IF Len(list_model_results) <= 1
       THEN set_intersection(misidentified_images_sets)
       ELSE set_intersection(SubSeq(misidentified_images_sets, 1,
                                    Len(list_model_results) - 1))

common_misidentified_images(list_model_results) ==
    LET misidentified_images_sets ==
            [k \in 1..Len(list_model_results) |->
                ToSet(list_model_results[k].misidentified_images)]
    IN set_intersection(misidentified_images_sets)

-----------------------------------------------------------------------------
(* Inputs of main(): sample file paths and sample result files *)

\* "VGG19_results.csv"
PathVGG19 == <<"V", "G", "G", "1", "9", "_", "r", "e", "s", "u", "l", "t", "s", ".", "c", "s", "v">>
\* "plainname.csv"
PathPlain == <<"p", "l", "a", "i", "n", "n", "a", "m", "e", ".", "c", "s", "v">>
\* "a_results_b.csv"
PathInner == <<"a", "_", "r", "e", "s", "u", "l", "t", "s", "_", "b", ".", "c", "s", "v">>
\* "a_results_b_results.csv"
PathInnerSuffix == <<"a", "_", "r", "e", "s", "u", "l", "t", "s", "_", "b", "_", "r", "e", "s", "u", "l", "t", "s", ".", "c", "s", "v">>
\* "d/VGG19_results.csv"
PathInDir == <<"d", "/", "V", "G", "G", "1", "9", "_", "r", "e", "s", "u", "l", "t", "s", ".", "c", "s", "v">>

SamplePaths == {PathVGG19, PathPlain, PathInner, PathInnerSuffix, PathInDir}

Row(id, correct) == [id |-> id, correct |-> correct]

TableAlpha == <<Row("img1", "True"), Row("img2", "False"), Row("img3", "False")>>
TableBeta == <<Row("img1", "False"), Row("img2", "False"), Row("img3", "True")>>
TableAllCorrect == <<Row("img1", "True"), Row("img2", "True")>>
\* A repeated index value and a blank "correct" cell.
TableRepeated == <<Row("img2", "False"), Row("img1", "NaN"), Row("img2", "False")>>
TableHeaderOnly == <<>>

SampleFiles == {Missing, File(TableHeaderOnly), File(TableAlpha), File(TableBeta),
                File(TableAllCorrect), File(TableRepeated)}

-----------------------------------------------------------------------------
(* outputs/report.html and the rendered templates *)

Absent == [state |-> "absent"]
OldReport == [state |-> "old"]
Truncated == [state |-> "empty"]
Written(text) == [state |-> "written", text |-> text]

title == <<"Model Report">>

summary_section(list, number) ==
    [template |-> "summary_section.html",
     model_results_list |-> list,
     number_misidentified |-> number]

table_section(model_result) ==
    [template |-> "table_section.html",
     model |-> model_result.model_name,
     dataset |-> model_result.dataset,
     table |-> get_results_df_as_html(model_result)]

report(secs, list) ==
    [template |-> "report.html",
     title |-> title,
     sections |-> secs,
     model_results_list |-> list]

-----------------------------------------------------------------------------
(* main() *)

\* Mutant: counts the list entries of the first model, not the common set.
main_number_misidentified_FirstList(list) ==
    Return(Len(list[1].misidentified_images))

\* Lines 117-118: the intersection main() computes itself.
main_number_misidentified(list) ==
    LET misidentified_images ==
            [k \in 1..Len(list) |-> ToSet(list[k].misidentified_images)]
        common == set_intersection(misidentified_images)
    IN IF Raised(common) THEN common ELSE Return(Cardinality(common.val))

NoCall == [fn |-> "none"]

Init ==
    /\ args \in SeqsUpTo(SamplePaths, MaxFiles) \ {<<>>}
    /\ fs \in [Range(args) -> SampleFiles]
    /\ outBefore \in {Absent, OldReport}
    /\ outFile = outBefore
    /\ pc = "load"
    /\ model_results = <<>>
    /\ number_misidentified = 0
    /\ sections = <<>>
    /\ err = ""
    /\ call = NoCall

Fail(e) ==
    /\ pc' = "failed"
    /\ err' = e

\* One pass of the loop of lines 109-113.
Construct ==
    /\ pc = "load"
    /\ Len(model_results) < Len(args)
    /\ LET results_filepath == args[Len(model_results) + 1]
           model_name == model_name_of(results_filepath)
           made == ModelResults(fs, model_name, results_filepath)
       IN IF Raised(made)
          THEN /\ Fail(made.err)
               /\ UNCHANGED model_results
          ELSE /\ model_results' = Append(model_results, made.val)
               /\ UNCHANGED <<pc, err>>
    /\ UNCHANGED <<args, fs, outBefore, outFile, number_misidentified, sections, call>>

\* Lines 116-118.
Intersect ==
    /\ pc = "load"
    /\ Len(model_results) = Len(args)
    /\ LET counted == main_number_misidentified(model_results)
       IN IF Raised(counted)
          THEN /\ Fail(counted.err)
               /\ UNCHANGED number_misidentified
          ELSE /\ number_misidentified' = counted.val
               /\ pc' = "summary"
               /\ UNCHANGED err
    /\ UNCHANGED <<args, fs, outBefore, outFile, model_results, sections, call>>

\* Lines 121-125.
RenderSummary ==
    /\ pc = "summary"
    /\ sections' = <<summary_section(model_results, number_misidentified)>>
    /\ pc' = "tables"
    /\ UNCHANGED <<args, fs, outBefore, outFile, model_results,
                   number_misidentified, err, call>>

\* Mutant: renders the tables from the last model to the first.
RenderTable_Reversed ==
    /\ pc = "tables"
    /\ Len(sections) <= Len(model_results)
    /\ sections' = Append(sections,
          table_section(model_results[Len(model_results) + 1 - Len(sections)]))
    /\ UNCHANGED <<args, fs, outBefore, outFile, pc, model_results,
                   number_misidentified, err, call>>

\* One pass of the loop of lines 126-131.
RenderTable ==
    /\ pc = "tables"
    /\ Len(sections) <= Len(model_results)
    /\ sections' = Append(sections, table_section(model_results[Len(sections)]))
    /\ UNCHANGED <<args, fs, outBefore, outFile, pc, model_results,
                   number_misidentified, err, call>>

\* A template's render() raises (lines 122, 127): the templates are not part
\* of the program, so whether one raises is the environment's choice.
RenderSectionRaises ==
    /\ \/ pc = "summary"
       \/ pc = "tables" /\ Len(sections) <= Len(model_results)
    /\ Fail("TemplateError")
    /\ UNCHANGED <<args, fs, outBefore, outFile, model_results,
                   number_misidentified, sections, call>>

\* Line 134: open(..., "w") creates the file or cuts it to length zero.
OpenOutput ==
    /\ pc = "tables"
    /\ Len(sections) = Len(model_results) + 1
    /\ outFile' = Truncated
    /\ pc' = "opened"
    /\ UNCHANGED <<args, fs, outBefore, model_results, number_misidentified,
                   sections, err, call>>

\* Lines 135-140: render the base template, write it, leave the with block.
WriteReport ==
    /\ pc = "opened"
    /\ outFile' = Written(report(sections, model_results))
    /\ pc' = "done"
    /\ UNCHANGED <<args, fs, outBefore, model_results, number_misidentified,
                   sections, err, call>>

\* Line 135: base_template.render() raises inside the with block; the file
\* is closed as it is.
RenderBaseRaises ==
    /\ pc = "opened"
    /\ Fail("TemplateError")
    /\ UNCHANGED <<args, fs, outBefore, outFile, model_results,
                   number_misidentified, sections, call>>

Next ==
    \/ Construct
    \/ Intersect
    \/ RenderSummary
    \/ RenderTable
    \/ RenderSectionRaises
    \/ OpenOutput
    \/ WriteReport
    \/ RenderBaseRaises

Spec == Init /\ [][Next]_vars

-----------------------------------------------------------------------------
(* Library calls: the constructor on every small result file, and the      *)
(* aggregator on every short list of misidentified_images lists.           *)

SmallFiles == {Missing} \cup {File(rows) : rows \in SeqsUpTo(Rows, MaxRows)}

ModelInit ==
    /\ args = <<PathVGG19>>
    /\ fs \in [{PathVGG19} -> SmallFiles]
    /\ outBefore = Absent
    /\ outFile = Absent
    /\ pc = "call"
    /\ model_results = <<>>
    /\ number_misidentified = 0
    /\ sections = <<>>
    /\ err = ""
    /\ call = [fn |-> "ModelResults"]

CallModelResults ==
    /\ pc = "call"
    /\ call.fn = "ModelResults"
    /\ call' = [fn |-> "ModelResults",
                res |-> ModelResults(fs, model_name_of(args[1]), args[1])]
    /\ pc' = "returned"
    /\ UNCHANGED <<args, fs, outBefore, outFile, model_results,
                   number_misidentified, sections, err>>

ModelSpec == ModelInit /\ [][CallModelResults]_vars

\* What the aggregator reads of a ModelResults: its misidentified_images.
Misidentifiers ==
    [misidentified_images : SeqsUpTo(ImageIds, MaxMisidentified)]

AggregatorInit ==
    /\ args = <<>>
    /\ fs = <<>>
    /\ outBefore = Absent
    /\ outFile = Absent
    /\ pc = "call"
    /\ model_results \in SeqsUpTo(Misidentifiers, MaxModels)
    /\ number_misidentified = 0
    /\ sections = <<>>
    /\ err = ""
    /\ call = [fn |-> "common_misidentified_images"]

CallAggregator ==
    /\ pc = "call"
    /\ call.fn = "common_misidentified_images"
    /\ call' = [fn |-> "common_misidentified_images",
                res |-> common_misidentified_images(model_results)]
    /\ pc' = "returned"
    /\ UNCHANGED <<args, fs, outBefore, outFile, model_results,
                   number_misidentified, sections, err>>

AggregatorSpec == AggregatorInit /\ [][CallAggregator]_vars

-----------------------------------------------------------------------------
(* Properties *)

Ended == pc \in {"failed", "done"}

\* C1: when main() ends, outputs/report.html is either as it was before the
\* run or holds the complete rendered report.
C1_AtomicOutput ==
    Ended =>
        \/ outFile = outBefore
        \/ outFile = Written(report(sections, model_results))

SectionsComplete == pc \in {"opened", "done"}

\* The ModelResults built from the k-th filepath.
Built(k) == ModelResults(fs, model_name_of(args[k]), args[k]).val

\* C2: the complete section list has one entry more than there are input
\* files; the first is the summary section and entry k+1 is the table section
\* of the ModelResults built from the k-th file.
C2_SectionOrder ==
    SectionsComplete =>
        /\ Len(sections) = Len(args) + 1
        /\ sections[1].template = "summary_section.html"
        /\ \A k \in 1..Len(args) : sections[k + 1] = table_section(Built(k))

C2_Witness ==
    /\ pc = "done"
    /\ Len(args) = 2
    /\ sections[2] # sections[3]
    /\ sections[2].table.rows = TableBeta
    /\ sections[3].table.rows = TableAlpha

Returned(fn) == pc = "returned" /\ call.fn = fn

\* C3: common_misidentified_images([]) raises EmptyInput.
C3_EmptyInputRaised ==
    (Returned("common_misidentified_images") /\ model_results = <<>>) =>
        call.res = Raise("EmptyInput")

ZeroRows(k) == fs[args[k]] = File(<<>>)

\* C4: a file with zero records makes the accuracy computation raise the
\* division error (Python's ZeroDivisionError), no value; the ModelResults is
\* never constructed, and main() ends there with no section rendered and the
\* output file untouched.
C4_ZeroRowsAbort ==
    \A k \in 1..Len(args) :
        ZeroRows(k) =>
            /\ _calculate_accuracy(csv_to_df(fs, args[k]).val)
                  = Raise("ZeroDivisionError")
            /\ Len(model_results) < k
            /\ (Len(model_results) = k - 1 /\ pc # "load") =>
                  /\ pc = "failed"
                  /\ err = "ZeroDivisionError"
                  /\ sections = <<>>
                  /\ outFile = outBefore

C4_Witness ==
    /\ pc = "failed"
    /\ err = "ZeroDivisionError"
    /\ Len(args) = 2
    /\ Len(model_results) = 1
    /\ ZeroRows(2)
    /\ outFile = OldReport

EndsWith(s, suffix) ==
    /\ Len(suffix) <= Len(s)
    /\ SubSeq(s, Len(s) - Len(suffix) + 1, Len(s)) = suffix

StripSuffix(s, suffix) ==
    IF EndsWith(s, suffix) THEN SubSeq(s, 1, Len(s) - Len(suffix)) ELSE s

\* C5: each model name is the file's base name without extension, less a
\* trailing "_results" and nothing else.
C5_ModelNameStripsSuffix ==
    \A k \in 1..Len(model_results) :
        model_results[k].model_name
            = StripSuffix(results_root_name(args[k]), RESULTS_MARKER)

\* C6: the table identifiers of one report are pairwise distinct.
C6_TableIdsDistinct ==
    pc = "done" =>
        \A j, k \in 2..Len(sections) :
            j # k => sections[j].table.table_id # sections[k].table.table_id

Injections(n) == {f \in [1..n -> 1..n] : \A a, b \in 1..n : f[a] = f[b] => a = b}

Permuted(list, f) == [k \in 1..Len(list) |-> list[f[k]]]

MisidentifiedSet(model_result) == Range(model_result.misidentified_images)

\* C7: for a non-empty list the aggregator returns a set that is a subset of
\* every model's misidentified set, holds exactly the identifiers every model
\* misidentified, is no larger than any model's misidentified set, and is the
\* same for every permutation of the list.
C7_CommonMisidentified ==
    (Returned("common_misidentified_images") /\ model_results # <<>>) =>
        /\ ~Raised(call.res)
        /\ \A k \in 1..Len(model_results) :
              /\ call.res.val \subseteq MisidentifiedSet(model_results[k])
              /\ Cardinality(call.res.val)
                    <= Cardinality(MisidentifiedSet(model_results[k]))
              /\ Cardinality(call.res.val)
                    <= Len(model_results[k].misidentified_images)
        /\ call.res.val =
              {id \in ImageIds : \A k \in 1..Len(model_results) :
                  \E n \in 1..Len(model_results[k].misidentified_images) :
                      model_results[k].misidentified_images[n] = id}
        /\ \A f \in Injections(Len(model_results)) :
              common_misidentified_images(Permuted(model_results, f)) = call.res

C7_Witness ==
    /\ Returned("common_misidentified_images")
    /\ Len(model_results) = 2
    /\ model_results[1].misidentified_images = <<"img2", "img3">>
    /\ model_results[2].misidentified_images = <<"img1", "img2">>
    /\ call.res = Return({"img2"})

Constructed == Returned("ModelResults") /\ ~Raised(call.res)

AllBoolean(df) == \A k \in 1..Len(df) : df[k].correct \in {"True", "False"}

\* C8: for a non-empty table whose rows all carry a boolean flag, the stored
\* accuracy n/d has 0 <= n <= d, is 1 exactly when misidentified_images is
\* empty, and is 0 exactly when every record is incorrect.
C8_AccuracyBounds ==
    (Constructed /\ AllBoolean(call.res.val.df_results)) =>
        LET self == call.res.val
        IN /\ self.accuracy.den > 0
           /\ self.accuracy.num <= self.accuracy.den
           /\ self.accuracy.num = self.accuracy.den
                 <=> self.misidentified_images = <<>>
           /\ self.accuracy.num = 0
                 <=> \A k \in 1..Len(self.df_results) :
                        self.df_results[k].correct = "False"

C8_Witness ==
    /\ Constructed
    /\ Len(call.res.val.df_results) = 2
    /\ AllBoolean(call.res.val.df_results)
    /\ call.res.val.accuracy = [num |-> 1, den |-> 2]
    /\ call.res.val.misidentified_images = <<"img2">>

\* C9: for every constructed ModelResults the misidentified and the correct
\* records add up to the image count, and misidentified_images is the
\* identifiers of the rows whose flag is false, in file order.
C9_Partition ==
    Constructed =>
        LET self == call.res.val
            falseRows == SelectSeq(self.df_results, LAMBDA row : row.correct = "False")
        IN /\ self.number_misidentified + number_correct_of(self.df_results)
                 = self.number_of_images
           /\ self.misidentified_images
                 = [k \in 1..Len(falseRows) |-> falseRows[k].id]

Counted == pc \in {"summary", "tables", "opened", "done"}

\* C10: the number_misidentified main() hands to the summary section is the
\* size of what common_misidentified_images returns for the same list; with
\* one model it is the number of distinct identifiers that model misidentified.
C10_SummaryCount ==
    Counted =>
        /\ number_misidentified
              = Cardinality(common_misidentified_images(model_results).val)
        /\ sections # <<>> => sections[1].number_misidentified = number_misidentified
        /\ Len(model_results) = 1 =>
              number_misidentified
                  = Cardinality(MisidentifiedSet(model_results[1]))

C10_Witness ==
    /\ pc = "done"
    /\ Len(args) = 1
    /\ model_results[1].df_results = TableAllCorrect
    /\ outFile.text.sections[1].number_misidentified = 0

====
